---- MODULE Spec2Model ----
(***************************************************************************)
(* Model of the rational-arithmetic and lattice-indexing core of           *)
(* rust-intonation: math.rs (gcd, reduce, sign_preserving_mod), ratio.rs   *)
(* (Ratio::new, normalize, complement, pow, Mul, Div) and                  *)
(* lattice/dimension_bounds.rs (resolve_index).                            *)
(*                                                                         *)
(* The functions are pure, so a behaviour is one call: from the initial    *)
(* state an action picks the arguments, and the next state records the     *)
(* operation, its arguments and what it returned.  Machine integers are    *)
(* scaled down: i32 is a signed integer of Bits bits and i64 one of        *)
(* WideBits bits, with Rust's truncating / and %, and with the overflow    *)
(* behaviour of the                                                        *)
(* build: a build with overflow checks (debug) panics on an overflowing    *)
(* +, -, * or pow, a build without them (release) wraps modulo 2^bits.     *)
(* Division by zero and MIN / -1 panic in every build.                     *)
(***************************************************************************)
EXTENDS Integers, Sequences, FiniteSets, TLC

VARIABLES build, op, args, out

vars == <<build, op, args, out>>

\* ---------------------------------------------------------------- bounds

\* width of the narrow integer type that stands for i32
Bits == 6
\* width of the wide integer type that stands for i64
WideBits == 2 * Bits
\* numerators and denominators of the calls that take further arguments
MaxIn == 8
\* the scale factors k of Ratio::new(k*n, k*d)
MaxK == 3
\* the exponents of pow
MaxExp == 2
\* the dimensions of a lattice and the indices of a query
MaxDims == 2
\* the indices of a lattice query
MaxIdx == 1
\* the identities of a diamond
MaxIds == 3
\* the small identities
MaxIdentity == 5
\* the identities of a displayed diamond
MaxLen == 6
\* the semitones of a rounded cents value, either side of 0
MaxSemitones == 30

\* ------------------------------------------------------ machine integers

MinOf(w) == -(2 ^ (w - 1))
MaxOf(w) == (2 ^ (w - 1)) - 1
InRange(w, x) == MinOf(w) <= x /\ x <= MaxOf(w)
IntsOf(w) == MinOf(w) .. MaxOf(w)

\* two's-complement wrap of x into w bits
Wrap(w, x) == ((x - MinOf(w)) % (2 ^ w)) + MinOf(w)

\* the marker of a panicked integer computation; it lies outside every type
Trap == -(2 ^ 30)

Abs(x) == IF x < 0 THEN -x ELSE x

\* an integer type in a build: its width and whether overflow is checked
Type(w, b) == [bits |-> w, checked |-> (b = "debug")]

\* the result x of +, - or * in type T
Arith(T, x) ==
    IF InRange(T.bits, x) THEN x
    ELSE IF T.checked THEN Trap
    ELSE Wrap(T.bits, x)

MulT(T, a, b) == IF a = Trap \/ b = Trap THEN Trap ELSE Arith(T, a * b)
AddT(T, a, b) == IF a = Trap \/ b = Trap THEN Trap ELSE Arith(T, a + b)
SubT(T, a, b) == IF a = Trap \/ b = Trap THEN Trap ELSE Arith(T, a - b)

\* Rust's / truncates toward zero; b = 0 and MIN / -1 panic in every build
DivT(T, a, b) ==
    IF a = Trap \/ b = Trap THEN Trap
    ELSE IF b = 0 \/ (a = MinOf(T.bits) /\ b = -1) THEN Trap
    ELSE IF (a < 0) = (b < 0) THEN Abs(a) \div Abs(b)
    ELSE -(Abs(a) \div Abs(b))

\* Rust's % takes the sign of the dividend; b = 0 and MIN % -1 panic
RemT(T, a, b) ==
    IF a = Trap \/ b = Trap THEN Trap
    ELSE IF b = 0 \/ (a = MinOf(T.bits) /\ b = -1) THEN Trap
    ELSE IF a < 0 THEN -(Abs(a) % Abs(b))
    ELSE a % Abs(b)

\* ------------------------------------------------------------- math.rs

\* gcd as it would be with a guard returning a for b = 0
RECURSIVE gcd_zero_guard(_, _, _)
gcd_zero_guard(T, a, b) ==
    IF b = 0 THEN a
    ELSE LET m == RemT(T, a, b)
         IN  IF m = Trap THEN Trap
             ELSE IF m > 0 THEN gcd_zero_guard(T, b, m)
             ELSE b

\* gcd: while a % b > 0 { t = a % b; a = b; b = t }; b
RECURSIVE gcd(_, _, _)
gcd(T, a, b) ==
    LET m == RemT(T, a, b)
    IN  IF m = Trap THEN Trap
        ELSE IF m > 0 THEN gcd(T, b, m)
        ELSE b

\* reduce: (a / g, b / g) with g = gcd(a, b)
reduce(T, a, b) ==
    LET g == gcd(T, a, b)
    IN  <<DivT(T, a, g), DivT(T, b, g)>>

\* sign_preserving_mod(a, b): (a % b + b) % b, on i32
sign_preserving_mod(I, a, b) == RemT(I, AddT(I, RemT(I, a, b), b), b)

\* what the function would return if it stopped at the first factor
least_prime_factor(T, a) ==
    IF a > 1
    THEN CHOOSE p \in 2 .. a : a % p = 0 /\ \A q \in 2 .. (p - 1) : a % q # 0
    ELSE 2

\* the loop of greatest_prime_factor: while a > 1, divide a by p when p
\* divides it, else try p + 1
RECURSIVE gpf_loop(_, _, _)
gpf_loop(T, a, p) ==
    IF p = Trap THEN Trap
    ELSE IF a > 1 THEN
        IF RemT(T, a, p) = 0 THEN gpf_loop(T, DivT(T, a, p), p)
        ELSE gpf_loop(T, a, AddT(T, p, 1))
    ELSE p

\* greatest_prime_factor: the loop from p = 2
greatest_prime_factor(T, a) == gpf_loop(T, a, 2)

\* ------------------------------------------- lattice/dimension_bounds.rs

Infinite == [kind |-> "Infinite", a |-> 0, b |-> 0]
LengthBounded(n) == [kind |-> "LengthBounded", a |-> n, b |-> 0]
RangeBounded(a, b) == [kind |-> "RangeBounded", a |-> a, b |-> b]

\* i32::abs: an overflowing +, like -MIN
AbsT(I, a) == IF a = Trap THEN Trap ELSE Arith(I, Abs(a))

\* LatticeDimensionBounds::resolve_index
resolve_index(I, bounds, index) ==
    IF bounds.kind = "Infinite" THEN index
    ELSE IF bounds.kind = "LengthBounded" THEN
        sign_preserving_mod(I, index, bounds.a)
    ELSE
        LET modulo == AddT(I, SubT(I, bounds.b, bounds.a), 1)
            abs_a == AbsT(I, bounds.a)
        IN  SubT(I, sign_preserving_mod(I, AddT(I, index, abs_a), modulo), abs_a)

\* ------------------------------------------------------------ ratio.rs

\* what a call returns: a Ratio, a panic, or no return (endless recursion)
Ok(n, d) == [st |-> "Ok", numer |-> n, denom |-> d]
Panic == [st |-> "Panic", numer |-> 0, denom |-> 0]
Diverge == [st |-> "Diverge", numer |-> 0, denom |-> 0]

\* Ratio::new
new(T, numer, denom) ==
    LET p == reduce(T, numer, denom)
    IN  IF p[1] = Trap \/ p[2] = Trap THEN Panic ELSE Ok(p[1], p[2])

\* a failed operand makes the whole expression fail the same way
Failed(x, y) == IF x.st # "Ok" THEN x ELSE y

\* impl Mul: Ratio::new(self.numer * rhs.numer, self.denom * rhs.denom)
mul(T, x, y) ==
    IF x.st # "Ok" \/ y.st # "Ok" THEN Failed(x, y)
    ELSE new(T, MulT(T, x.numer, y.numer), MulT(T, x.denom, y.denom))

\* impl Div: Ratio::new(self.numer * rhs.denom, self.denom * rhs.numer)
div(T, x, y) ==
    IF x.st # "Ok" \/ y.st # "Ok" THEN Failed(x, y)
    ELSE new(T, MulT(T, x.numer, y.denom), MulT(T, x.denom, y.numer))

\* From<&Ratio> for f64, as normalize compares it: numer / denom < 1.0.
\* A zero denominator gives an infinity or NaN, and NaN compares false.
Lt1(r) ==
    IF r.denom > 0 THEN r.numer < r.denom
    ELSE IF r.denom < 0 THEN r.numer > r.denom
    ELSE r.numer < 0

\* numer / denom >= 2.0
Ge2(r) ==
    IF r.denom > 0 THEN r.numer >= 2 * r.denom
    ELSE IF r.denom < 0 THEN r.numer <= 2 * r.denom
    ELSE r.numer > 0

\* normalize as it would be with the second arm testing f > 2.
RECURSIVE normalize_rec_gt2(_, _, _)
normalize_rec_gt2(T, r, seen) ==
    IF r.st # "Ok" THEN r
    ELSE IF r \in seen THEN Diverge
    ELSE IF Lt1(r) THEN
        CHOOSE v \in {normalize_rec_gt2(T, x, s) :
                         x \in {new(T, MulT(T, r.numer, 2), r.denom)},
                         s \in {seen \cup {r}}} : TRUE
    ELSE IF Ge2(r) /\ r.numer # 2 * r.denom THEN
        CHOOSE v \in {normalize_rec_gt2(T, x, s) :
                         x \in {new(T, r.numer, MulT(T, r.denom, 2))},
                         s \in {seen \cup {r}}} : TRUE
    ELSE new(T, r.numer, r.denom)

\* normalize as it would be without the recursive call: one doubling only
normalize_once(T, r, seen) ==
    IF r.st # "Ok" THEN r
    ELSE IF Lt1(r) THEN new(T, MulT(T, r.numer, 2), r.denom)
    ELSE IF Ge2(r) THEN new(T, r.numer, MulT(T, r.denom, 2))
    ELSE new(T, r.numer, r.denom)

\* the recursion as it would be if a value below 1 were tripled
RECURSIVE normalize_rec_tripling(_, _, _)
normalize_rec_tripling(T, r, seen) ==
    IF r.st # "Ok" THEN r
    ELSE IF r \in seen THEN Diverge
    ELSE IF Lt1(r) THEN
        CHOOSE v \in {normalize_rec_tripling(T, x, s) :
                         x \in {new(T, MulT(T, r.numer, 3), r.denom)},
                         s \in {seen \cup {r}}} : TRUE
    ELSE IF Ge2(r) THEN
        CHOOSE v \in {normalize_rec_tripling(T, x, s) :
                         x \in {new(T, r.numer, MulT(T, r.denom, 2))},
                         s \in {seen \cup {r}}} : TRUE
    ELSE new(T, r.numer, r.denom)

\* Ratio::normalize, with the values the recursion has been called on: the
\* recursion is deterministic, so it returns unless it meets a value again.
\* (x \in {e} binds x to the value of e, so that e is evaluated once.)
RECURSIVE normalize_rec(_, _, _)
normalize_rec(T, r, seen) ==
    IF r.st # "Ok" THEN r
    ELSE IF r \in seen THEN Diverge
    ELSE IF Lt1(r) THEN
        CHOOSE v \in {normalize_rec(T, x, s) :
                         x \in {new(T, MulT(T, r.numer, 2), r.denom)},
                         s \in {seen \cup {r}}} : TRUE
    ELSE IF Ge2(r) THEN
        CHOOSE v \in {normalize_rec(T, x, s) :
                         x \in {new(T, r.numer, MulT(T, r.denom, 2))},
                         s \in {seen \cup {r}}} : TRUE
    ELSE new(T, r.numer, r.denom)

normalize(T, r) == CHOOSE v \in {normalize_rec(T, x, {}) : x \in {r}} : TRUE

\* Ratio::complement: (Self::new(two, one) / *self).normalize()
complement(T, r) == normalize(T, div(T, new(T, 2, 1), r))

\* Ratio::limit: the larger of the two greatest prime factors
limit(T, r) ==
    LET a == greatest_prime_factor(T, r.numer)
        b == greatest_prime_factor(T, r.denom)
    IN  IF a = Trap \/ b = Trap THEN Trap ELSE IF a >= b THEN a ELSE b

\* impl Neg: self.complement()
neg(T, r) == complement(T, r)

\* T::pow(self, exp as u32) for exp > 0: the product of exp factors b. Every
\* partial product of the library's square-and-multiply loop is a power
\* b^j with j <= exp, so it overflows exactly when this product does.
RECURSIVE int_pow(_, _, _)
int_pow(T, b, e) ==
    IF e = 0 THEN 1
    ELSE CHOOSE v \in {MulT(T, p, b) : p \in {int_pow(T, b, e - 1)}} : TRUE

\* Ratio::pow; exp is far from i32::MIN here, so -exp is exact
RECURSIVE pow(_, _, _)
pow(T, r, exp) ==
    IF r.st # "Ok" THEN r
    ELSE IF exp = 0 THEN new(T, 1, 1)
    ELSE IF exp < 0 THEN
        CHOOSE v \in {pow(T, c, -exp) : c \in {complement(T, r)}} : TRUE
    ELSE normalize(T, new(T, int_pow(T, r.numer, exp), int_pow(T, r.denom, exp)))

\* ------------------------------------------------- lattice/dimension.rs

LatticeDimension(ratio, bounds) == [ratio |-> ratio, bounds |-> bounds]

\* LatticeDimension::at: self.ratio.pow(self.bounds.resolve_index(index))
dimension_at(T, I, dim, index) ==
    CHOOSE v \in {IF e = Trap THEN Panic ELSE pow(T, dim.ratio, e) :
                     e \in {resolve_index(I, dim.bounds, index)}} : TRUE

\* ------------------------------------------------------- lattice/mod.rs

\* dimensions.iter().zip(indices.iter()).map(dim.at(index)).fold(.., acc * r)
\* from the k-th pair on: zip ends with the shorter of the two, and a panic
\* ends the call
RECURSIVE lattice_fold(_, _, _, _, _, _)
lattice_fold(T, I, dimensions, indices, k, acc) ==
    IF acc.st # "Ok" THEN acc
    ELSE IF k > Len(dimensions) \/ k > Len(indices) THEN acc
    ELSE CHOOSE v \in {lattice_fold(T, I, dimensions, indices, k + 1, a) :
                          a \in {mul(T, dimension_at(T, I, dimensions[k], indices[k]),
                                     acc)}} : TRUE

\* Lattice::at: the fold starts from Ratio::new(one, one)
lattice_at(T, I, dimensions, indices) ==
    lattice_fold(T, I, dimensions, indices, 1, new(T, 1, 1))

\* ------------------------------------------------------------ diamond.rs

\* the identities are u32
UnsignedMax == (2 ^ Bits) - 1

\* `*d as i32`: the cast of a u32 keeps the low bits
as_i32(u) == Wrap(Bits, u)

\* the first outcome of cells that is not Ok, or "Ok": the iterator stops
\* at the first cell that fails
FirstFailure(cells) ==
    IF \A k \in 1 .. Len(cells) : cells[k].st = "Ok" THEN "Ok"
    ELSE cells[CHOOSE k \in 1 .. Len(cells) :
                  /\ cells[k].st # "Ok"
                  /\ \A h \in 1 .. (k - 1) : cells[h].st = "Ok"].st

\* the row as it would be with numerator and denominator exchanged
construct_ratios_with_numerator(T, identities, denominator) ==
    LET cells == [j \in 1 .. Len(identities) |->
                    normalize(T, new(T, denominator, as_i32(identities[j])))]
    IN  [st |-> FirstFailure(cells), cells |-> cells]

\* Diamond::construct_ratios_with_denominator: for every identity n,
\* Ratio::new(*n as i32, denominator).normalize()
construct_ratios_with_denominator(T, identities, denominator) ==
    LET cells == [j \in 1 .. Len(identities) |->
                    normalize(T, new(T, as_i32(identities[j]), denominator))]
    IN  [st |-> FirstFailure(cells), cells |-> cells]

\* Diamond::generate: one row for every identity d
generate(T, identities) ==
    LET rows == [i \in 1 .. Len(identities) |->
                    construct_ratios_with_denominator(T, identities,
                                                      as_i32(identities[i]))]
    IN  [st |-> FirstFailure(rows),
         matrix |-> [i \in 1 .. Len(identities) |-> rows[i].cells]]

\* the inclusive range a..=b, in order
RangeInclusive(a, b) == [k \in 1 .. (b - a + 1) |-> a + k - 1]

\* Iterator::enumerate: the position, from 0, with the item
enumerate(s) == [k \in 1 .. Len(s) |-> <<k - 1, s[k]>>]

\* .map(|(a, b)| (b, a))
swap_pairs(s) == [k \in 1 .. Len(s) |-> <<s[k][2], s[k][1]>>]

\* the rows as they would be with the second loop's pairs left as they are
index_coordinates_unswapped(checked, len) ==
    IF len = 0 THEN [st |-> IF checked THEN "Panic" ELSE "Diverge", rows |-> <<>>]
    ELSE LET max == len - 1
         IN  [st |-> "Ok",
              rows |-> [r \in 1 .. (max + 1) |->
                            enumerate(RangeInclusive(max - (r - 1), max))]
                       \o [i \in 1 .. max |-> enumerate(RangeInclusive(i, max))]]

\* Diamond::index_coordinates for len identities. With no identities
\* len - 1 underflows: a panic with overflow checks, and without them
\* max = usize::MAX and the first loop does not end.
index_coordinates(checked, len) ==
    IF len = 0 THEN [st |-> IF checked THEN "Panic" ELSE "Diverge", rows |-> <<>>]
    ELSE LET max == len - 1
         IN  [st |-> "Ok",
              rows |-> [r \in 1 .. (max + 1) |->
                            enumerate(RangeInclusive(max - (r - 1), max))]
                       \o [i \in 1 .. max |->
                            swap_pairs(enumerate(RangeInclusive(i, max)))]]

\* Diamond::construct_diamond_row: the number of tabs before the row
prefix_len(len, row) == len - Len(row)

\* ----------------------------------------------------------- interval.rs

\* enum TwelveEDOInterval, in the order of its steps
TwelveEDOInterval ==
    <<"PerfectUnison", "MinorSecond", "MajorSecond", "MinorThird",
      "MajorThird", "PerfectFourth", "AugmentedFourth", "PerfectFifth",
      "MinorSixth", "MajorSixth", "MinorSeventh", "MajorSeventh">>

\* From<&TwelveEDOInterval> for usize
usize_from(interval) ==
    CHOOSE n \in 0 .. 11 : TwelveEDOInterval[n + 1] = interval

\* the f64 remainder a % b of whole numbers: exact, with the sign of a
f64_rem(a, b) == IF a < 0 THEN -((-a) % b) ELSE a % b

\* From<f64> for TwelveEDOInterval, for a whole multiple of 100 cents:
\* value / 100. is exact, the match compares (value / 100.) % 12. with
\* 0., 1., ..., 11. (-0. equals 0.) and panics on any other number
twelve_edo_from(value) ==
    LET n == f64_rem(value \div 100, 12)
    IN  IF n \in 0 .. 11 THEN TwelveEDOInterval[n + 1] ELSE "Panic"

\* ---------------------------------------------------------------- state

Builds == {"debug", "release"}
Narrow(b) == Type(Bits, b)
Wide(b) == Type(WideBits, b)
Types(b) == {Narrow(b), Wide(b)}

NoArgs == [t |-> 0]

Init ==
    /\ build \in Builds
    /\ op = "none"
    /\ args = NoArgs
    /\ out = NoArgs

\* Ratio::new(n, d) on every pair of narrow integers
New ==
    /\ op = "none"
    /\ \E n \in IntsOf(Bits), d \in IntsOf(Bits) :
        /\ op' = "new"
        /\ args' = [n |-> n, d |-> d]
        /\ out' = new(Narrow(build), n, d)
        /\ UNCHANGED build

\* r.normalize() and r.normalize().normalize() for every r that
\* Ratio::new returns on narrow integers, in either integer type
Normalize ==
    /\ op = "none"
    /\ \E T \in Types(build), n \in IntsOf(Bits), d \in IntsOf(Bits) :
        \E r \in {new(T, n, d)} :
        \E once \in {normalize(T, r)} :
            /\ r.st = "Ok"
            /\ op' = "normalize"
            /\ args' = [bits |-> T.bits, n |-> n, d |-> d]
            /\ out' = [r |-> r, once |-> once, twice |-> normalize(T, once)]
            /\ UNCHANGED build

SmallInts == -MaxIn .. MaxIn

\* Ratio::new(k*n, k*d) beside Ratio::new(n, d), for nonzero n, d and k
\* whose products fit the integer type
NewScaled ==
    /\ op = "none"
    /\ \E T \in Types(build), n \in SmallInts \ {0}, d \in SmallInts \ {0},
          k \in (-MaxK .. MaxK) \ {0} :
        /\ InRange(T.bits, k * n)
        /\ InRange(T.bits, k * d)
        /\ op' = "new_scaled"
        /\ args' = [bits |-> T.bits, n |-> n, d |-> d, k |-> k]
        /\ out' = [scaled |-> new(T, k * n, k * d), plain |-> new(T, n, d)]
        /\ UNCHANGED build

\* r.normalize() * r.complement(), the product not normalized
Complement ==
    /\ op = "none"
    /\ \E T \in Types(build), n \in IntsOf(Bits), d \in IntsOf(Bits) :
        \E r \in {new(T, n, d)} :
        \E norm \in {normalize(T, r)}, comp \in {complement(T, r)} :
            /\ r.st = "Ok"
            /\ op' = "complement"
            /\ args' = [bits |-> T.bits, n |-> n, d |-> d]
            /\ out' = [r |-> r, norm |-> norm, comp |-> comp,
                        prod |-> mul(T, norm, comp)]
            /\ UNCHANGED build

\* r.pow(a).pow(b) beside r.pow(a * b), and r.pow(0)
Pow ==
    /\ op = "none"
    /\ \E T \in Types(build), n \in SmallInts, d \in SmallInts,
          a \in -MaxExp .. MaxExp, b \in -MaxExp .. MaxExp :
        \E r \in {new(T, n, d)} :
        \E pa \in {pow(T, r, a)} :
            /\ r.st = "Ok"
            /\ op' = "pow"
            /\ args' = [bits |-> T.bits, n |-> n, d |-> d, a |-> a, b |-> b]
            /\ out' = [r |-> r, pa |-> pa, pab |-> pow(T, pa, b),
                        direct |-> pow(T, r, a * b), zero |-> pow(T, r, 0)]
            /\ UNCHANGED build

\* the numerators and denominators of a product: small ones and the largest
Factors == (1 .. MaxK) \cup {MaxOf(Bits) - 1, MaxOf(Bits)}

\* x * y in the narrow type beside the same product in the wide type
Mul ==
    /\ op = "none"
    /\ \E n1 \in Factors, d1 \in Factors, n2 \in Factors, d2 \in Factors :
        \E x \in {new(Narrow(build), n1, d1)}, y \in {new(Narrow(build), n2, d2)} :
            /\ op' = "mul"
            /\ args' = [x |-> x, y |-> y]
            /\ out' = [narrow |-> mul(Narrow(build), x, y),
                        wide |-> mul(Wide(build), x, y)]
            /\ UNCHANGED build

\* LengthBounded(n).resolve_index(i) for every length and index of i32
ResolveLength ==
    /\ op = "none"
    /\ \E n \in IntsOf(Bits), i \in IntsOf(Bits) :
        /\ op' = "resolve_length"
        /\ args' = [n |-> n, i |-> i]
        /\ out' = resolve_index(Narrow(build), LengthBounded(n), i)
        /\ UNCHANGED build

\* RangeBounded(a, b).resolve_index(i) for a <= b and every index of i32
ResolveRange ==
    /\ op = "none"
    /\ \E a \in SmallInts, b \in SmallInts, i \in IntsOf(Bits) :
        /\ a <= b
        /\ op' = "resolve_range"
        /\ args' = [a |-> a, b |-> b, i |-> i]
        /\ out' = resolve_index(Narrow(build), RangeBounded(a, b), i)
        /\ UNCHANGED build

\* the dimensions of the lattices: ratios and bounds of the tests, and a
\* dimension of length 0
Dimensions(T) ==
    {LatticeDimension(new(T, 3, 2), Infinite),
     LatticeDimension(new(T, 5, 4), LengthBounded(2)),
     LatticeDimension(new(T, 7, 4), LengthBounded(-2)),
     LatticeDimension(new(T, 3, 2), LengthBounded(0))}

\* the sequences over S of length at most n
SeqsUpTo(S, n) == UNION {[1 .. m -> S] : m \in 0 .. n}

\* indices followed by zeros, one index for every dimension
PadZeros(indices, n) ==
    [k \in 1 .. n |-> IF k <= Len(indices) THEN indices[k] ELSE 0]

\* Lattice::at(indices), and the same query with a zero for every
\* dimension that has no index
LatticeAt ==
    /\ op = "none"
    /\ \E T \in Types(build) :
        \E dimensions \in SeqsUpTo(Dimensions(T), MaxDims),
           indices \in SeqsUpTo(-MaxIdx .. MaxIdx, MaxDims) :
            /\ op' = "lattice_at"
            /\ args' = [bits |-> T.bits, dimensions |-> dimensions,
                         indices |-> indices]
            /\ out' = [at |-> lattice_at(T, Narrow(build), dimensions, indices),
                        padded |-> lattice_at(T, Narrow(build), dimensions,
                                PadZeros(indices, Len(dimensions)))]
            /\ UNCHANGED build

\* the identities: the small ones, i32::MAX and two above it
Identities ==
    (0 .. MaxIdentity) \cup {MaxOf(Bits), MaxOf(Bits) + 1, UnsignedMax}

\* Diamond::new(identities).generate(), always of Ratio<i32>
Generate ==
    /\ op = "none"
    /\ \E identities \in SeqsUpTo(Identities, MaxIds) :
        /\ op' = "generate"
        /\ args' = [identities |-> identities]
        /\ out' = generate(Narrow(build), identities)
        /\ UNCHANGED build

\* the display order of a diamond of len identities: index_coordinates,
\* and the indentation construct_diamond_row gives every row
IndexCoordinates ==
    /\ op = "none"
    /\ \E len \in 0 .. MaxLen :
        \E c \in {index_coordinates(build = "debug", len)} :
            /\ op' = "index_coordinates"
            /\ args' = [len |-> len]
            /\ out' = [st |-> c.st, rows |-> c.rows,
                        prefix |-> [r \in 1 .. Len(c.rows) |->
                                        prefix_len(len, c.rows[r])]]
            /\ UNCHANGED build

\* -r beside r.complement(), and r.complement().complement().normalize()
\* beside r.normalize()
Neg ==
    /\ op = "none"
    /\ \E T \in Types(build), n \in IntsOf(Bits), d \in IntsOf(Bits) :
        \E r \in {new(T, n, d)} :
        \E comp \in {complement(T, r)} :
            /\ r.st = "Ok"
            /\ op' = "neg"
            /\ args' = [bits |-> T.bits, n |-> n, d |-> d]
            /\ out' = [r |-> r, neg |-> neg(T, r), comp |-> comp,
                        back |-> normalize(T, complement(T, comp)),
                        norm |-> normalize(T, r)]
            /\ UNCHANGED build

\* the interval named for the rounded value of 100 * k cents, and the
\* step of that interval
IntervalFromCents ==
    /\ op = "none"
    /\ \E k \in -MaxSemitones .. MaxSemitones :
        \E interval \in {twelve_edo_from(100 * k)} :
            /\ op' = "interval_from_cents"
            /\ args' = [k |-> k]
            /\ out' = [interval |-> interval,
                        step |-> IF interval = "Panic" THEN -1
                                 ELSE usize_from(interval)]
            /\ UNCHANGED build

\* Ratio::new(n, d).limit(), and greatest_prime_factor(n)
Limit ==
    /\ op = "none"
    /\ \E T \in Types(build), n \in -1 .. MaxOf(Bits), d \in -1 .. MaxOf(Bits) :
        \E r \in {new(T, n, d)} :
            /\ r.st = "Ok"
            /\ op' = "limit"
            /\ args' = [bits |-> T.bits, n |-> n, d |-> d]
            /\ out' = [r |-> r, limit |-> limit(T, r),
                        gpf |-> greatest_prime_factor(T, n)]
            /\ UNCHANGED build

\* the normalize() results of two positive ratios
NormalizePair ==
    /\ op = "none"
    /\ \E T \in Types(build), n1 \in 1 .. MaxIn, d1 \in 1 .. MaxIn,
          n2 \in 1 .. MaxIn, d2 \in 1 .. MaxIn :
        \E r1 \in {new(T, n1, d1)}, r2 \in {new(T, n2, d2)} :
            /\ op' = "normalize_pair"
            /\ args' = [bits |-> T.bits, r1 |-> r1, r2 |-> r2]
            /\ out' = [norm1 |-> normalize(T, r1), norm2 |-> normalize(T, r2)]
            /\ UNCHANGED build

Next ==
    \/ New
    \/ NewScaled
    \/ Normalize
    \/ Complement
    \/ Pow
    \/ Mul
    \/ ResolveLength
    \/ ResolveRange
    \/ LatticeAt
    \/ Generate
    \/ IndexCoordinates
    \/ Neg
    \/ IntervalFromCents
    \/ Limit
    \/ NormalizePair

Spec == Init /\ [][Next]_vars

\* --------------------------------------------------------------- claims

\* a and b have no common divisor above 1
Coprime(a, b) ==
    \A k \in 2 .. Abs(a) : ~(Abs(a) % k = 0 /\ Abs(b) % k = 0)

\* the value numer / denom of r lies in [1, 2)
InOctave(r) ==
    /\ r.denom # 0
    /\ ~Lt1(r)
    /\ ~Ge2(r)

\* C1: for all nonzero n and d, positive or negative, the ratio that
\* Ratio::new(n, d) returns has coprime numer and denom.
C1_LowestTerms ==
    (op = "new" /\ args.n # 0 /\ args.d # 0 /\ out.st = "Ok")
        => Coprime(out.numer, out.denom)

\* C2: for all nonzero n, d and k (k negative too) with k*n and k*d in the
\* integer type, Ratio::new(k*n, k*d) equals Ratio::new(n, d).
C2_ScaleInvariant ==
    (op = "new_scaled") => out.scaled = out.plain

\* C3: whenever r.normalize() returns, its value numer/denom lies in
\* [1, 2), in either build and either integer type.
C3_NormalizeInOctave ==
    (op = "normalize" /\ out.once.st = "Ok") => InOctave(out.once)

\* normalize has doubled the denominator of 9/4 and returned 9/8
C3_Witness ==
    /\ op = "normalize"
    /\ args.n = 9
    /\ args.d = 4
    /\ out.once = Ok(9, 8)

\* C4: normalize is idempotent: whenever r.normalize() returns,
\* r.normalize().normalize() returns the same ratio.
C4_NormalizeIdempotent ==
    (op = "normalize" /\ out.once.st = "Ok") => out.twice = out.once

\* normalize has moved 1/3 to 4/3, and 4/3 normalizes to itself
C4_Witness ==
    /\ op = "normalize"
    /\ out.r = Ok(1, 3)
    /\ out.once = Ok(4, 3)
    /\ out.twice = Ok(4, 3)

\* C5: for every r, the unison and the other powers of two included,
\* r.normalize() * r.complement(), not normalized, is 2/1.
C5_ComplementProduct ==
    (op = "complement" /\ out.prod.st = "Ok") => out.prod = Ok(2, 1)

\* C6: r.pow(0) is 1/1, and r.pow(a).pow(b) equals r.pow(a*b) for all small
\* a and b, negative, zero or positive, whenever both return.
C6_PowComposes ==
    (op = "pow") =>
        /\ out.zero = Ok(1, 1)
        /\ (out.pab.st = "Ok" /\ out.direct.st = "Ok") => out.pab = out.direct

\* C7: a multiplication, or an exponentiation of pow, with a product outside
\* the integer type fails instead of returning a wrapped ratio, and the
\* same multiplication in the wider type returns the exact reduced product.
C7_OverflowFailsLoudly ==
    /\ (op = "mul" /\ (~InRange(Bits, args.x.numer * args.y.numer)
                         \/ ~InRange(Bits, args.x.denom * args.y.denom)))
            => /\ out.narrow.st = "Panic"
               /\ out.wide.st = "Ok"
               /\ Coprime(out.wide.numer, out.wide.denom)
               /\ out.wide.numer * (args.x.denom * args.y.denom)
                      = out.wide.denom * (args.x.numer * args.y.numer)
    /\ (op = "pow" /\ args.a > 0
           /\ (~InRange(args.bits, out.r.numer ^ args.a)
                  \/ ~InRange(args.bits, out.r.denom ^ args.a)))
            => out.pa.st # "Ok"

\* C8: Ratio::new(n, 0) fails for every numerator n, zero included.
C8_ZeroDenominatorFails ==
    (op = "new" /\ args.d = 0) => out.st = "Panic"

\* Ratio::new(0, 0) has been called and has panicked
C8_Witness ==
    /\ op = "new"
    /\ args.n = 0
    /\ args.d = 0
    /\ out.st = "Panic"

\* C9: for all a <= b, negative, zero or positive, and every index i, the
\* result r of RangeBounded(a, b).resolve_index(i) satisfies a <= r <= b and
\* is congruent to i modulo b - a + 1.
C9_RangeWrap ==
    (op = "resolve_range" /\ out # Trap) =>
        /\ args.a <= out
        /\ out <= args.b
        /\ (out - args.i) % (args.b - args.a + 1) = 0

\* C10: for every positive length n and every index i of i32,
\* LengthBounded(n).resolve_index(i) returns, without failure, a value r
\* with 0 <= r < n that is congruent to i modulo n.
C10_LengthWrap ==
    (op = "resolve_length" /\ args.n > 0) =>
        /\ out # Trap
        /\ 0 <= out
        /\ out < args.n
        /\ (out - args.i) % args.n = 0

\* C11: for every negative length n and every index i, the value r that
\* LengthBounded(n).resolve_index(i) returns satisfies n < r <= 0 and is
\* congruent to i modulo |n|; index 1 resolves to n + 1.
C11_NegativeLengthWrap ==
    (op = "resolve_length" /\ args.n < 0 /\ out # Trap) =>
        /\ args.n < out
        /\ out <= 0
        /\ (out - args.i) % (-args.n) = 0
        /\ (args.i = 1) => (out = args.n + 1)

\* the k-th dimension's ratio at the k-th index
AtPair(k) ==
    dimension_at(Type(args.bits, build), Narrow(build),
                 args.dimensions[k], args.indices[k])

\* the product of the first m pairs, from 1/1
RECURSIVE ProductOfPairs(_)
ProductOfPairs(m) ==
    IF m = 0 THEN new(Type(args.bits, build), 1, 1)
    ELSE mul(Type(args.bits, build), AtPair(m), ProductOfPairs(m - 1))

ShorterLength ==
    IF Len(args.dimensions) <= Len(args.indices)
    THEN Len(args.dimensions) ELSE Len(args.indices)

\* C12: Lattice::at(indices) is the product, from 1/1, of
\* dimension[k].ratio.pow(resolve_index(indices[k])) over the k below the
\* shorter of the two lengths; fewer indices than dimensions give what the
\* indices padded with zeros give; no indices give 1/1.
C12_LatticeAt ==
    (op = "lattice_at") =>
        /\ (out.at.st = "Ok") = (ProductOfPairs(ShorterLength).st = "Ok")
        /\ (out.at.st = "Ok") => out.at = ProductOfPairs(ShorterLength)
        /\ (Len(args.indices) < Len(args.dimensions)) => out.padded = out.at
        /\ (Len(args.indices) = 0) => out.at = Ok(1, 1)

\* r has the value n / d times a power of two
SameUpToOctaves(r, n, d) ==
    \E k \in 0 .. Bits :
        \/ r.numer * d * (2 ^ k) = r.denom * n
        \/ r.numer * d = r.denom * n * (2 ^ k)

\* C13: the matrix that generate() returns for n identities has n rows of n
\* cells; the cell of row i and column j is identity j over identity i
\* normalized, that is the ratio in lowest terms with a value in [1, 2)
\* that is identities[j] / identities[i] times a power of two; every
\* diagonal cell is 1/1.
C13_DiamondCells ==
    (op = "generate" /\ out.st = "Ok") =>
        LET n == Len(args.identities)
        IN  /\ Len(out.matrix) = n
            /\ \A i \in 1 .. n :
                /\ Len(out.matrix[i]) = n
                /\ out.matrix[i][i] = Ok(1, 1)
                /\ \A j \in 1 .. n :
                    /\ out.matrix[i][j].st = "Ok"
                    /\ out.matrix[i][j].numer > 0
                    /\ Coprime(out.matrix[i][j].numer, out.matrix[i][j].denom)
                    /\ InOctave(out.matrix[i][j])
                    /\ SameUpToOctaves(out.matrix[i][j], args.identities[j],
                                       args.identities[i])

\* the 5-limit diamond of the identities 1, 3, 5
C13_Witness ==
    /\ op = "generate"
    /\ args.identities = <<1, 3, 5>>
    /\ out.st = "Ok"
    /\ out.matrix = << <<Ok(1, 1), Ok(3, 2), Ok(5, 4)>>,
                       <<Ok(4, 3), Ok(1, 1), Ok(5, 3)>>,
                       <<Ok(8, 5), Ok(6, 5), Ok(1, 1)>> >>

\* C14: for n >= 1 identities and max = n - 1 the display order has 2n - 1
\* rows: row r <= n is (0,i), (1,i+1), ..., (max-i,max) for i = n - r, and
\* row n + i, for i from 1 to max, is (i,0), (i+1,1), ..., (max,max-i);
\* the diagonal (0,0)..(max,max) is the middle row and wider than every
\* other row; every row is indented by n - row_length tabs; every cell of
\* the matrix is shown once.
C14_DisplayOrder ==
    (op = "index_coordinates" /\ args.len >= 1) =>
        LET n == args.len
            max == args.len - 1
        IN  /\ out.st = "Ok"
            /\ Len(out.rows) = 2 * n - 1
            /\ \A r \in 1 .. n :
                /\ Len(out.rows[r]) = r
                /\ \A k \in 1 .. r : out.rows[r][k] = <<k - 1, (n - r) + (k - 1)>>
            /\ \A i \in 1 .. max :
                /\ Len(out.rows[n + i]) = n - i
                /\ \A k \in 1 .. (n - i) : out.rows[n + i][k] = <<i + (k - 1), k - 1>>
            /\ out.rows[n] = [k \in 1 .. n |-> <<k - 1, k - 1>>]
            /\ \A r \in 1 .. (2 * n - 1) :
                /\ (r # n) => Len(out.rows[r]) < n
                /\ out.prefix[r] = n - Len(out.rows[r])
                /\ out.prefix[r] = (IF r <= n THEN n - r ELSE r - n)
            /\ \A a \in 0 .. max, b \in 0 .. max :
                    Cardinality({<<r, k>> \in (1 .. (2 * n - 1)) \X (1 .. n) :
                                    /\ k <= Len(out.rows[r])
                                    /\ out.rows[r][k] = <<a, b>>}) = 1

\* the display order of three identities
C14_Witness ==
    /\ op = "index_coordinates"
    /\ args.len = 3
    /\ out.rows = << << <<0, 2>> >>,
                     << <<0, 1>>, <<1, 2>> >>,
                     << <<0, 0>>, <<1, 1>>, <<2, 2>> >>,
                     << <<1, 0>>, <<2, 1>> >>,
                     << <<2, 0>> >> >>
    /\ out.prefix = <<2, 1, 0, 1, 2>>

\* C15: for every ratio r, r.complement().complement().normalize() equals
\* r.normalize(), and -r equals r.complement().
C15_ComplementInvolution ==
    (op = "neg") =>
        /\ out.neg = out.comp
        /\ (out.back.st = "Ok" /\ out.norm.st = "Ok") => out.back = out.norm

\* C16: for every integer k, negative or not, converting 100 * k cents to
\* a TwelveEDOInterval yields the degree of step k mod 12, and converting
\* that degree to its step number gives k mod 12.
C16_IntervalNamingTotal ==
    (op = "interval_from_cents") =>
        /\ out.interval = TwelveEDOInterval[(args.k % 12) + 1]
        /\ out.step = args.k % 12

IsPrime(p) == p >= 2 /\ \A q \in 2 .. (p - 1) : p % q # 0

\* the largest prime that divides a, for a >= 2
LargestPrimeDividing(a) ==
    CHOOSE p \in 2 .. a :
        /\ IsPrime(p)
        /\ a % p = 0
        /\ \A q \in (p + 1) .. a : ~(IsPrime(q) /\ a % q = 0)

\* what the claim says greatest_prime_factor returns for a >= 1
ClaimedGpf(a) == IF a >= 2 THEN LargestPrimeDividing(a) ELSE 2

\* C17: greatest_prime_factor(a) is the largest prime dividing a for every
\* a >= 2 and is 2 for a = 1; limit() is the larger of the greatest prime
\* factors of numer and denom, and Ratio::new(1, 1).limit() is 2.
C17_LimitIsGreatestPrime ==
    (op = "limit") =>
        /\ (args.n >= 1) => out.gpf = ClaimedGpf(args.n)
        /\ (out.r.numer >= 1 /\ out.r.denom >= 1) =>
               out.limit = (IF ClaimedGpf(out.r.numer) >= ClaimedGpf(out.r.denom)
                            THEN ClaimedGpf(out.r.numer)
                            ELSE ClaimedGpf(out.r.denom))
        /\ (out.r = Ok(1, 1)) => out.limit = 2

\* 15/14: the greatest prime factor of 15 is 5, and the limit is 7
C17_Witness ==
    /\ op = "limit"
    /\ args.n = 15
    /\ args.d = 14
    /\ out.r = Ok(15, 14)
    /\ out.gpf = 5
    /\ out.limit = 7

\* C18: normalize() terminates on every ratio Ratio::new can return, a
\* zero numerator and negative values included: the recursion does not go
\* on for ever.
C18_NormalizeTerminates ==
    (op = "normalize") => out.once.st # "Diverge"

\* x is y times an integer power of two
DifferByOctaves(x, y) ==
    \E j \in 0 .. (Bits + 1) :
        \/ x.numer * y.denom * (2 ^ j) = y.numer * x.denom
        \/ x.numer * y.denom = y.numer * x.denom * (2 ^ j)

\* C19: for every positive ratio r the result of r.normalize() is r times
\* an integer power of two, and two positive ratios have the same
\* normalize() result exactly when they differ by a power of two.
C19_NormalizeMovesByOctaves ==
    /\ (op = "normalize" /\ out.r.numer > 0 /\ out.r.denom > 0
            /\ out.once.st = "Ok") => DifferByOctaves(out.once, out.r)
    /\ (op = "normalize_pair" /\ out.norm1.st = "Ok" /\ out.norm2.st = "Ok") =>
            ((out.norm1 = out.norm2) <=> DifferByOctaves(args.r1, args.r2))

\* 3/1 and 3/4 differ by two octaves, and both normalize to 3/2
C19_Witness ==
    /\ op = "normalize_pair"
    /\ args.r1 = Ok(3, 1)
    /\ args.r2 = Ok(3, 4)
    /\ out.norm1 = Ok(3, 2)
    /\ out.norm2 = Ok(3, 2)

====
